---------------------------- MODULE Spec2Model ----------------------------
(***************************************************************************)
(* A model of yeastdnnexplorer:                                            *)
(*   - ml_models/customizable_model.py: the CustomizableModel constructor, *)
(*     forward, the three step hooks and configure_optimizers;             *)
(*   - experiments/simple_model_synthetic_data.py: main, the argument      *)
(*     parser, the experiment function and its two checkpoint callbacks.   *)
(*                                                                         *)
(* Python values whose type the code inspects are records [t, n, s]: the   *)
(* type name, the number (for int; for float the value in thousandths) and *)
(* the text (for str).  Tensors are symbolic: a tensor is its last         *)
(* dimension and the sequence of modules applied to it so far.             *)
(***************************************************************************)
EXTENDS Integers, Sequences, FiniteSets, TLC

VARIABLES
    \* ---- a CustomizableModel object and its callers ----
    phase,      \* "new" (not constructed), "built" (__init__ returned), "failed" (__init__ raised)
    args,       \* the arguments of the __init__ call
    self,       \* the object's attributes; self.set names those assigned so far
    last,       \* the outcome of the most recent method call on the object
    log,        \* what self.log received: a sequence of [key, value]
    calls,      \* the step invocations that returned: a sequence of [kind, ret]
    \* ---- one run of simple_model_synthetic_data.py ----
    pc,         \* the position of the run
    argv,       \* the command line: flag -> text, or absent
    locals,     \* main's local variables
    events,     \* the external calls made so far, in order
    trainer,    \* the Trainer's progress and its callbacks' saved checkpoints
    raised      \* the exception that ended the run, if any

modelVars == <<phase, args, self, last, log, calls>>
expVars == <<pc, argv, locals, events, trainer, raised>>
vars == <<phase, args, self, last, log, calls, pc, argv, locals, events, trainer, raised>>

-----------------------------------------------------------------------------
(* Bounds of the model *)

MaxSizes == 3
MaxHiddenNum == 3
MaxLog == 2

-----------------------------------------------------------------------------
(* Python values *)

PyInt(k) == [t |-> "int", n |-> k, s |-> ""]
PyFloat(k) == [t |-> "float", n |-> k, s |-> ""]
PyStr(txt) == [t |-> "str", n |-> 0, s |-> txt]
PyNone == [t |-> "NoneType", n |-> 0, s |-> ""]

NoErr == [type |-> "", msg |-> ""]
Err(ty, m) == [type |-> ty, msg |-> m]

\* isinstance(v, int)
IsInstanceInt(v) == v.t = "int"
\* isinstance(v, float)
IsInstanceFloat(v) == v.t = "float"


-----------------------------------------------------------------------------
(* CustomizableModel.__init__ *)

\* The values the constructor is called with.
InputDims == {PyInt(0), PyInt(1), PyInt(2), PyFloat(2000), PyStr("2")}
OutputDims == {PyInt(0), PyInt(1), PyInt(2), PyStr("2")}
LearningRates == {PyFloat(1), PyFloat(0), PyFloat(-1), PyInt(1)}
Widths == {1, 2}
HiddenLayerNums == -1..MaxHiddenNum
HiddenLayerSizes == UNION {[1..k -> Widths] : k \in 0..MaxSizes}
Activations == {"ReLU", "Sigmoid", "Tanh", "LeakyRelU", "LeakyReLU", "relu"}
Optimizers == {"Adam", "SGD", "RMSprop", "AdamW"}
\* L2_regularization_term in thousandths, dropout_rate in tenths.
L2Terms == {0, 10}
DropoutRates == {0, 5}

Args(i, o, l, n, hs, act, opt, l2, dr) ==
    [input_dim |-> i, output_dim |-> o, lr |-> l, hidden_layer_num |-> n,
     hidden_layer_sizes |-> hs, activation |-> act, optimizer |-> opt,
     L2_regularization_term |-> l2, dropout_rate |-> dr]

NoArgs == Args(PyNone, PyNone, PyNone, 0, <<>>, "", "", 0, 0)

\* nn.Linear(in_features, out_features)
Linear(i, o) == [in_features |-> i, out_features |-> o]
NoLayer == Linear(0, 0)

\* The object before any attribute is assigned.
EmptySelf ==
    [set |-> {}, input_dim |-> 0, output_dim |-> 0, lr |-> 0, hidden_layer_num |-> 0,
     hidden_layer_sizes |-> <<>>, optimizer |-> "", L2_regularization_term |-> 0,
     activation |-> "", input_layer |-> NoLayer, hidden_layers |-> <<>>,
     output_layer |-> NoLayer, dropout |-> 0]

\* ValidationError with the range check moved ahead of the lr check.
ValidationError_RangeBeforeLr(a) ==
    IF ~IsInstanceInt(a.input_dim) THEN Err("TypeError", "input_dim must be an integer")
    ELSE IF ~IsInstanceInt(a.output_dim) THEN Err("TypeError", "output_dim must be an integer")
    ELSE IF a.input_dim.n < 1 \/ a.output_dim.n < 1
         THEN Err("ValueError", "input_dim and output_dim must be positive integers")
    ELSE IF ~IsInstanceFloat(a.lr) \/ a.lr.n <= 0 THEN Err("TypeError", "lr must be a positive float")
    ELSE NoErr

\* The argument checks, in the order of the code; NoErr when all pass.
ValidationError(a) ==
    IF ~IsInstanceInt(a.input_dim) THEN Err("TypeError", "input_dim must be an integer")
    ELSE IF ~IsInstanceInt(a.output_dim) THEN Err("TypeError", "output_dim must be an integer")
    ELSE IF ~IsInstanceFloat(a.lr) \/ a.lr.n <= 0 THEN Err("TypeError", "lr must be a positive float")
    ELSE IF a.input_dim.n < 1 \/ a.output_dim.n < 1
         THEN Err("ValueError", "input_dim and output_dim must be positive integers")
    ELSE NoErr

\* self.input_dim = input_dim ... self.L2_regularization_term = L2_regularization_term
SetHyperparameters(a) ==
    [EmptySelf EXCEPT
        !.input_dim = a.input_dim.n,
        !.output_dim = a.output_dim.n,
        !.lr = a.lr.n,
        !.hidden_layer_num = a.hidden_layer_num,
        !.hidden_layer_sizes = a.hidden_layer_sizes,
        !.optimizer = a.optimizer,
        !.L2_regularization_term = a.L2_regularization_term,
        !.set = {"input_dim", "output_dim", "lr", "hidden_layer_num", "hidden_layer_sizes",
                 "optimizer", "L2_regularization_term"}]

\* ActivationModule accepting the usual spelling 'LeakyReLU' as well.
ActivationModule_UsualSpelling(name) ==
    CASE name = "ReLU" -> "nn.ReLU"
      [] name = "Sigmoid" -> "nn.Sigmoid"
      [] name = "Tanh" -> "nn.Tanh"
      [] name \in {"LeakyRelU", "LeakyReLU"} -> "nn.LeakyReLU"
      [] OTHER -> ""

\* match activation: the module installed, "" for the default case (which raises).
ActivationModule(name) ==
    CASE name = "ReLU" -> "nn.ReLU"
      [] name = "Sigmoid" -> "nn.Sigmoid"
      [] name = "Tanh" -> "nn.Tanh"
      [] name = "LeakyRelU" -> "nn.LeakyReLU"
      [] OTHER -> ""

\* hidden_layer_sizes[k] for a Python index k >= 0 is hs[k + 1]; it raises IndexError
\* when k >= len(hidden_layer_sizes).
InRange(hs, k) == k >= 0 /\ k < Len(hs)

\* HiddenLoop building each hidden layer as sizes[i] -> sizes[i].
RECURSIVE HiddenLoop_SameWidth(_, _, _, _)
HiddenLoop_SameWidth(hs, n, i, acc) ==
    IF i >= n - 1 THEN [layers |-> acc, err |-> NoErr]
    ELSE IF ~InRange(hs, i) \/ ~InRange(hs, i + 1)
         THEN [layers |-> acc, err |-> Err("IndexError", "list index out of range")]
    ELSE HiddenLoop_SameWidth(hs, n, i + 1, Append(acc, Linear(hs[i + 1], hs[i + 1])))

\* for i in range(hidden_layer_num - 1): self.hidden_layers.append(nn.Linear(...)),
\* from iteration i with the layers acc appended so far.
RECURSIVE HiddenLoop(_, _, _, _)
HiddenLoop(hs, n, i, acc) ==
    IF i >= n - 1 THEN [layers |-> acc, err |-> NoErr]
    ELSE IF ~InRange(hs, i) \/ ~InRange(hs, i + 1)
         THEN [layers |-> acc, err |-> Err("IndexError", "list index out of range")]
    ELSE HiddenLoop(hs, n, i + 1, Append(acc, Linear(hs[i + 1], hs[i + 2])))

\* The layers of the network, from self.input_layer to self.dropout.
BuildLayers(s, a) ==
    LET hs == a.hidden_layer_sizes IN
    IF ~InRange(hs, 0) THEN [self |-> s, err |-> Err("IndexError", "list index out of range")]
    ELSE
      LET s1 == [s EXCEPT !.input_layer = Linear(a.input_dim.n, hs[1]),
                          !.hidden_layers = <<>>,
                          !.set = @ \cup {"input_layer", "hidden_layers"}]
          loop == HiddenLoop(hs, a.hidden_layer_num, 0, <<>>)
          s2 == [s1 EXCEPT !.hidden_layers = loop.layers]
      IN IF loop.err # NoErr THEN [self |-> s2, err |-> loop.err]
         ELSE [self |-> [s2 EXCEPT !.output_layer = Linear(hs[Len(hs)], a.output_dim.n),
                                   !.dropout = a.dropout_rate,
                                   !.set = @ \cup {"output_layer", "dropout"}],
               err |-> NoErr]

\* The whole constructor: the object as it stands when __init__ returns or raises.
NewModel(a) ==
    LET verr == ValidationError(a) IN
    IF verr # NoErr THEN [self |-> EmptySelf, err |-> verr]
    ELSE
      LET s0 == SetHyperparameters(a)
          act == ActivationModule(a.activation)
      IN IF act = ""
         THEN [self |-> s0,
               err |-> Err("ValueError",
                           "activation must be one of 'ReLU', 'Sigmoid', 'Tanh', 'LeakyRelU'")]
         ELSE BuildLayers([s0 EXCEPT !.activation = act, !.set = @ \cup {"activation"}], a)

-----------------------------------------------------------------------------
(* Tensors, CustomizableModel.forward and the loss *)

\* A fresh tensor of a batch: its name, its last dimension, no module applied yet.
Tensor(nm, d) == [name |-> nm, shape |-> d, hist |-> <<>>]
NoTensor == Tensor("", 0)
Batches == {[x |-> Tensor("x", dx), y |-> Tensor("y", dy)] : dx \in Widths, dy \in Widths}
NoBatch == [x |-> NoTensor, y |-> NoTensor]

\* layer(t) for a linear layer: the last dimension must be the layer's in_features.
ApplyLinear(layer, t, nm, idx) ==
    IF t.shape # layer.in_features
    THEN [t |-> t, err |-> Err("RuntimeError", "mat1 and mat2 shapes cannot be multiplied")]
    ELSE [t |-> [t EXCEPT !.shape = layer.out_features,
                          !.hist = Append(@, [op |-> nm, i |-> idx])],
          err |-> NoErr]

\* self.activation(t)
ApplyActivation(s, t) == [t EXCEPT !.hist = Append(@, [op |-> s.activation, i |-> 0])]

\* self.dropout(t)
ApplyDropout(s, t) == [t EXCEPT !.hist = Append(@, [op |-> "nn.Dropout", i |-> s.dropout])]

\* x = self.dropout(self.activation(layer(x)))
ActivatedLayer(s, layer, t, nm, idx) ==
    LET r == ApplyLinear(layer, t, nm, idx) IN
    IF r.err # NoErr THEN r
    ELSE [t |-> ApplyDropout(s, ApplyActivation(s, r.t)), err |-> NoErr]

\* for hidden_layer in self.hidden_layers: ..., from the k-th layer (k = 1 is the first).
RECURSIVE ForwardHidden(_, _, _)
ForwardHidden(s, t, k) ==
    IF k > Len(s.hidden_layers) THEN [t |-> t, err |-> NoErr]
    ELSE LET r == ActivatedLayer(s, s.hidden_layers[k], t, "hidden_layers", k - 1) IN
         IF r.err # NoErr THEN r ELSE ForwardHidden(s, r.t, k + 1)

\* Forward with the activation and dropout applied to the output layer too.
Forward_ActivatedOutput(s, x) ==
    LET r1 == ActivatedLayer(s, s.input_layer, x, "input_layer", 0) IN
    IF r1.err # NoErr THEN r1
    ELSE LET r2 == ForwardHidden(s, r1.t, 1) IN
         IF r2.err # NoErr THEN r2
         ELSE ActivatedLayer(s, s.output_layer, r2.t, "output_layer", 0)

\* forward(self, x)
Forward(s, x) ==
    LET r1 == ActivatedLayer(s, s.input_layer, x, "input_layer", 0) IN
    IF r1.err # NoErr THEN r1
    ELSE LET r2 == ForwardHidden(s, r1.t, 1) IN
         IF r2.err # NoErr THEN r2
         ELSE ApplyLinear(s.output_layer, r2.t, "output_layer", 0)

\* nn.functional.mse_loss(input, target): the two shapes must broadcast.
NoLoss == [fn |-> "", input |-> NoTensor, target |-> NoTensor]
MseLoss(input, target) ==
    IF input.shape # target.shape /\ input.shape # 1 /\ target.shape # 1
    THEN [loss |-> NoLoss, err |-> Err("RuntimeError", "tensor sizes must match")]
    ELSE [loss |-> [fn |-> "mse_loss", input |-> input, target |-> target], err |-> NoErr]

-----------------------------------------------------------------------------
(* The step hooks and configure_optimizers *)

\* The common body of the three steps, logging under key.
StepBody(s, batch, key) ==
    LET fw == Forward(s, batch.x) IN
    IF fw.err # NoErr THEN [ret |-> NoLoss, logged |-> <<>>, err |-> fw.err]
    ELSE LET l == MseLoss(fw.t, batch.y) IN
         IF l.err # NoErr THEN [ret |-> NoLoss, logged |-> <<>>, err |-> l.err]
         ELSE [ret |-> l.loss, logged |-> <<[key |-> key, value |-> l.loss]>>, err |-> NoErr]

training_step(s, batch) == StepBody(s, batch, "train_loss")

\* validation_step logging under the training key.
validation_step_TrainKey(s, batch) == StepBody(s, batch, "train_loss")

validation_step(s, batch) == StepBody(s, batch, "val_loss")

test_step(s, batch) == StepBody(s, batch, "test_loss")

Step(kind, s, batch) ==
    CASE kind = "training_step" -> training_step(s, batch)
      [] kind = "validation_step" -> validation_step(s, batch)
      [] kind = "test_step" -> test_step(s, batch)

StepKinds == {"training_step", "validation_step", "test_step"}

\* self.parameters(): the layers that hold parameters, in registration order.
Parameters(s) == <<s.input_layer>> \o s.hidden_layers \o <<s.output_layer>>

NoOptimizer == [kind |-> "", params |-> <<>>, lr |-> 0, weight_decay |-> 0]
Optimizer(k, s) ==
    [kind |-> k, params |-> Parameters(s), lr |-> s.lr, weight_decay |-> s.L2_regularization_term]

\* configure_optimizers dropping the weight decay for SGD.
configure_optimizers_NoDecay(s) ==
    CASE s.optimizer = "Adam" -> [opt |-> Optimizer("torch.optim.Adam", s), err |-> NoErr]
      [] s.optimizer = "SGD" ->
            [opt |-> [Optimizer("torch.optim.SGD", s) EXCEPT !.weight_decay = 0], err |-> NoErr]
      [] s.optimizer = "RMSprop" -> [opt |-> Optimizer("torch.optim.RMSprop", s), err |-> NoErr]
      [] OTHER -> [opt |-> NoOptimizer,
                   err |-> Err("ValueError", "optimizer must be one of 'Adam', 'SGD', 'RMSprop'")]

\* configure_optimizers(self)
configure_optimizers(s) ==
    CASE s.optimizer = "Adam" -> [opt |-> Optimizer("torch.optim.Adam", s), err |-> NoErr]
      [] s.optimizer = "SGD" -> [opt |-> Optimizer("torch.optim.SGD", s), err |-> NoErr]
      [] s.optimizer = "RMSprop" -> [opt |-> Optimizer("torch.optim.RMSprop", s), err |-> NoErr]
      [] OTHER -> [opt |-> NoOptimizer,
                   err |-> Err("ValueError", "optimizer must be one of 'Adam', 'SGD', 'RMSprop'")]

-----------------------------------------------------------------------------
(* The calls on a CustomizableModel *)

\* The outcome of a call: what was called, on what, and what it returned or raised.
Outcome(c, b, t, l, o, e) ==
    [call |-> c, batch |-> b, tensor |-> t, loss |-> l, opt |-> o, err |-> e]
NoCall == Outcome("", NoBatch, NoTensor, NoLoss, NoOptimizer, NoErr)

\* The calls that leave lr, activation, optimizer, L2_regularization_term and
\* dropout_rate at the defaults of the signature.
DefaultedCalls ==
    {Args(i, o, PyFloat(1), n, hs, "ReLU", "Adam", 0, 0) :
        i \in {PyInt(1), PyInt(2)}, o \in {PyInt(1), PyInt(2)}, n \in HiddenLayerNums, hs \in HiddenLayerSizes}

\* model = CustomizableModel(...) for a call a
ConstructWith(a) ==
    /\ phase = "new"
    /\ LET r == NewModel(a) IN
          /\ args' = a
          /\ self' = r.self
          /\ phase' = IF r.err = NoErr THEN "built" ELSE "failed"
          /\ last' = Outcome("__init__", NoBatch, NoTensor, NoLoss, NoOptimizer, r.err)
    /\ UNCHANGED <<log, calls>>
    /\ UNCHANGED expVars

\* Every call of the constructor within the bounds.
Construct ==
    /\ phase = "new"
    /\ \E i \in InputDims, o \in OutputDims, l \in LearningRates, n \in HiddenLayerNums,
          hs \in HiddenLayerSizes, act \in Activations, opt \in Optimizers,
          l2 \in L2Terms, dr \in DropoutRates :
          ConstructWith(Args(i, o, l, n, hs, act, opt, l2, dr))

ConstructDefaulted ==
    /\ phase = "new"
    /\ \E a \in DefaultedCalls : ConstructWith(a)

CallForward ==
    /\ phase = "built"
    /\ \E b \in Batches :
          LET r == Forward(self, b.x) IN
          last' = Outcome("forward", [b EXCEPT !.y = NoTensor],
                          IF r.err = NoErr THEN r.t ELSE NoTensor, NoLoss, NoOptimizer, r.err)
    /\ UNCHANGED <<phase, args, self, log, calls>>
    /\ UNCHANGED expVars

CallStep ==
    /\ phase = "built"
    /\ Len(calls) < MaxLog
    /\ \E kind \in StepKinds, b \in Batches :
          LET r == Step(kind, self, b) IN
          /\ log' = log \o r.logged
          /\ calls' = IF r.err = NoErr THEN Append(calls, [kind |-> kind, batch |-> b, ret |-> r.ret])
                      ELSE calls
          /\ last' = Outcome(kind, b, NoTensor, r.ret, NoOptimizer, r.err)
    /\ UNCHANGED <<phase, args, self>>
    /\ UNCHANGED expVars

CallConfigureOptimizers ==
    /\ phase = "built"
    /\ LET r == configure_optimizers(self) IN
          last' = Outcome("configure_optimizers", NoBatch, NoTensor, NoLoss, r.opt, r.err)
    /\ UNCHANGED <<phase, args, self, log, calls>>
    /\ UNCHANGED expVars

-----------------------------------------------------------------------------
(* simple_model_synthetic_data.py: the command line and main's locals *)

Flags == {"batch_size", "lr", "max_epochs", "random_seed", "gpus"}
\* What the command line gives for a flag: absent, or present with a text.
Absent == [present |-> FALSE, text |-> ""]
Given(txt) == [present |-> TRUE, text |-> txt]
FlagTexts == {"", "0", "3"}
CommandLines == [Flags -> {Absent} \cup {Given(txt) : txt \in FlagTexts}]

\* parser.add_argument('--flag', action='store'): no type is given, so a supplied
\* value is stored as the text it was typed as, and an absent flag as None.
parse_args_for_synthetic_data_experiment(cmd) ==
    [f \in Flags |-> IF cmd[f].present THEN PyStr(cmd[f].text) ELSE PyNone]

\* bool(v)
Truthy(v) ==
    CASE v.t = "NoneType" -> FALSE
      [] v.t = "str" -> v.s # ""
      [] OTHER -> v.n # 0

\* a or b
PyOr(a, b) == IF Truthy(a) THEN a ELSE b

\* a > b for Python values: a number (in thousandths) against a number, else TypeError.
IsNumber(v) == v.t \in {"int", "float"}
Thousandths(v) == IF v.t = "int" THEN v.n * 1000 ELSE v.n
PyGreater(a, b) ==
    IF IsNumber(a) /\ IsNumber(b)
    THEN [value |-> Thousandths(a) > Thousandths(b), err |-> NoErr]
    ELSE [value |-> FALSE, err |-> Err("TypeError", "'>' not supported between instances")]

DefaultBatchSize == 32
DefaultLr == PyFloat(1)
DefaultMaxEpochs == 10
DefaultRandomSeed == 42
DefaultGpus == 0

\* batch_size = args.batch_size or 32 ... gpus = args.gpus or 0
MainLocals(ns) ==
    [batch_size |-> PyOr(ns["batch_size"], PyInt(DefaultBatchSize)),
     lr |-> PyOr(ns["lr"], DefaultLr),
     max_epochs |-> PyOr(ns["max_epochs"], PyInt(DefaultMaxEpochs)),
     random_seed |-> PyOr(ns["random_seed"], PyInt(DefaultRandomSeed)),
     gpus |-> PyOr(ns["gpus"], PyInt(DefaultGpus)),
     accelerator |-> ""]
NoLocals ==
    [batch_size |-> PyNone, lr |-> PyNone, max_epochs |-> PyNone, random_seed |-> PyNone,
     gpus |-> PyNone, accelerator |-> ""]

\* accelerator='gpu' if (gpus > 0) else 'cpu'
SelectAccelerator(gpus) ==
    LET c == PyGreater(gpus, PyInt(0)) IN
    IF c.err # NoErr THEN [value |-> "", err |-> c.err]
    ELSE [value |-> IF c.value THEN "gpu" ELSE "cpu", err |-> NoErr]

-----------------------------------------------------------------------------
(* The checkpoint callbacks and the Trainer *)

\* best_model_checkpoint = ModelCheckpoint(monitor='val_loss', mode='min', ..., save_top_k=1)
best_model_checkpoint ==
    [monitor |-> "val_loss", mode |-> "min", every_n_epochs |-> 1, save_top_k |-> 1]

\* periodic_checkpoint = ModelCheckpoint(..., every_n_epochs=2, save_top_k=-1)
periodic_checkpoint ==
    [monitor |-> "", mode |-> "min", every_n_epochs |-> 2, save_top_k |-> -1]

\* The validation losses an epoch may end with.
ValLosses == {1, 2, 3}

NoTrainer ==
    [created |-> FALSE, max_epochs |-> PyNone, accelerator |-> "", epoch |-> 0,
     periodic |-> {}, best |-> {}, tests |-> 0]

\* Trainer(max_epochs=..., accelerator=..., callbacks=[best_model_checkpoint, periodic_checkpoint])
NewTrainer(l) ==
    [NoTrainer EXCEPT !.created = TRUE, !.max_epochs = l.max_epochs,
                      !.accelerator = l.accelerator]

\* A callback's turn at the end of the e-th epoch (e = 1 is the first), the epoch's
\* metrics being m: the checkpoints it holds afterwards, each [epoch, score].
OnEpochEnd(cb, held, e, m) ==
    IF e % cb.every_n_epochs # 0 THEN held
    ELSE IF cb.monitor = "" \/ cb.save_top_k = -1
         THEN held \cup {[epoch |-> e, score |-> 0]}
    ELSE LET score == m[cb.monitor]
             better(a, b) == IF cb.mode = "min" THEN a < b ELSE a > b
         IN IF Cardinality(held) < cb.save_top_k
            THEN held \cup {[epoch |-> e, score |-> score]}
            ELSE IF \E c \in held : better(score, c.score)
                 THEN LET worst == CHOOSE c \in held : \A d \in held : ~better(c.score, d.score)
                      IN (held \ {worst}) \cup {[epoch |-> e, score |-> score]}
                 ELSE held

\* The metrics SimpleModel's hooks log in an epoch whose validation loss is v.
EpochMetrics(v) == [k \in {"val_loss"} |-> v]

\* One epoch of trainer.fit: training, validation with loss v, then the callbacks.
FitOneEpoch(t, v) ==
    LET e == t.epoch + 1
        m == EpochMetrics(v)
    IN [t EXCEPT !.epoch = e,
                 !.best = OnEpochEnd(best_model_checkpoint, t.best, e, m),
                 !.periodic = OnEpochEnd(periodic_checkpoint, t.periodic, e, m)]

-----------------------------------------------------------------------------
(* One run of the experiment script *)

Ev(c, m, d) == [call |-> c, model |-> m, data |-> d]

\* Successor with trainer.test ahead of trainer.fit.
Successor_TestFirst(p) ==
    CASE p = "start" -> "seed"
      [] p = "seed" -> "call"
      [] p = "call" -> "data_module"
      [] p = "data_module" -> "model"
      [] p = "model" -> "trainer"
      [] p = "trainer" -> "test"
      [] p = "test" -> "fit"
      [] p = "fit" -> "fitting"
      [] p = "fitting" -> "print"
      [] p = "print" -> "done"

\* The statement that follows the one at position p, when that one returns.
Successor(p) ==
    CASE p = "start" -> "seed"
      [] p = "seed" -> "call"
      [] p = "call" -> "data_module"
      [] p = "data_module" -> "model"
      [] p = "model" -> "trainer"
      [] p = "trainer" -> "fit"
      [] p = "fit" -> "fitting"
      [] p = "fitting" -> "test"
      [] p = "test" -> "print"
      [] p = "print" -> "done"

\* The external call made at position p.
CallAt(p) ==
    CASE p = "seed" -> Ev("seed_everything", "", "")
      [] p = "data_module" -> Ev("SyntheticDataLoader", "", "")
      [] p = "model" -> Ev("SimpleModel", "", "")
      [] p = "trainer" -> Ev("Trainer", "", "")
      [] p = "fit" -> Ev("trainer.fit", "model", "data_module")
      [] p = "test" -> Ev("trainer.test", "model", "data_module")
      [] p = "print" -> Ev("print", "", "")

\* args = parse_args_for_synthetic_data_experiment() and the five defaults
MainParse ==
    /\ pc = "start"
    /\ \E cmd \in CommandLines :
          /\ argv' = cmd
          /\ locals' = MainLocals(parse_args_for_synthetic_data_experiment(cmd))
    /\ pc' = Successor(pc)
    /\ UNCHANGED <<events, trainer, raised>>
    /\ UNCHANGED modelVars

\* seed_everything(random_seed)
MainSeed ==
    /\ pc = "seed"
    /\ events' = Append(events, CallAt(pc))
    /\ pc' = Successor(pc)
    /\ UNCHANGED <<argv, locals, trainer, raised>>
    /\ UNCHANGED modelVars

\* simple_model_synthetic_data_experiment(..., accelerator='gpu' if (gpus > 0) else 'cpu')
MainCallExperiment ==
    /\ pc = "call"
    /\ LET r == SelectAccelerator(locals.gpus) IN
          IF r.err # NoErr
          THEN /\ pc' = "raised"
               /\ raised' = r.err
               /\ UNCHANGED locals
          ELSE /\ pc' = Successor(pc)
               /\ locals' = [locals EXCEPT !.accelerator = r.value]
               /\ UNCHANGED raised
    /\ UNCHANGED <<argv, events, trainer>>
    /\ UNCHANGED modelVars

\* data_module = SyntheticDataLoader(...); model = SimpleModel(...)
ExpCreate ==
    /\ pc \in {"data_module", "model"}
    /\ events' = Append(events, CallAt(pc))
    /\ pc' = Successor(pc)
    /\ UNCHANGED <<argv, locals, trainer, raised>>
    /\ UNCHANGED modelVars

\* trainer = Trainer(...)
ExpTrainer ==
    /\ pc = "trainer"
    /\ events' = Append(events, CallAt(pc))
    /\ trainer' = NewTrainer(locals)
    /\ pc' = Successor(pc)
    /\ UNCHANGED <<argv, locals, raised>>
    /\ UNCHANGED modelVars

\* trainer.fit(model, data_module): the call
ExpFit ==
    /\ pc = "fit"
    /\ events' = Append(events, CallAt(pc))
    /\ pc' = Successor(pc)
    /\ UNCHANGED <<argv, locals, trainer, raised>>
    /\ UNCHANGED modelVars

\* trainer.fit: one more epoch, while fewer than max_epochs are done
TrainerEpoch ==
    /\ pc = "fitting"
    /\ trainer.max_epochs.t = "int"
    /\ trainer.epoch < trainer.max_epochs.n
    /\ \E v \in ValLosses : trainer' = FitOneEpoch(trainer, v)
    /\ UNCHANGED <<pc, argv, locals, events, raised>>
    /\ UNCHANGED modelVars

\* trainer.fit returns once max_epochs epochs are done
ExpFitReturn ==
    /\ pc = "fitting"
    /\ trainer.max_epochs.t = "int"
    /\ trainer.epoch >= trainer.max_epochs.n
    /\ events' = Append(events, Ev("trainer.fit returned", "model", "data_module"))
    /\ pc' = Successor(pc)
    /\ UNCHANGED <<argv, locals, trainer, raised>>
    /\ UNCHANGED modelVars

\* test_results = trainer.test(model, datamodule=data_module)
ExpTest ==
    /\ pc = "test"
    /\ events' = Append(events, CallAt(pc))
    /\ trainer' = [trainer EXCEPT !.tests = @ + 1]
    /\ pc' = Successor(pc)
    /\ UNCHANGED <<argv, locals, raised>>
    /\ UNCHANGED modelVars

\* print(test_results)
ExpPrint ==
    /\ pc = "print"
    /\ events' = Append(events, CallAt(pc))
    /\ pc' = Successor(pc)
    /\ UNCHANGED <<argv, locals, trainer, raised>>
    /\ UNCHANGED modelVars

\* A call into the framework raises instead of returning; the run ends there.
\* (trainer.fit has been entered at "fitting"; the other calls are made here.)
ExternalRaises ==
    /\ pc \in {"seed", "data_module", "model", "trainer", "fit", "fitting", "test"}
    /\ events' = IF pc = "fitting" THEN events ELSE Append(events, CallAt(pc))
    /\ raised' = Err("Exception", "raised by the framework")
    /\ trainer' = IF pc = "test" THEN [trainer EXCEPT !.tests = @ + 1] ELSE trainer
    /\ pc' = "raised"
    /\ UNCHANGED <<argv, locals>>
    /\ UNCHANGED modelVars

-----------------------------------------------------------------------------
(* Specifications *)

Init ==
    /\ phase = "new"
    /\ args = NoArgs
    /\ self = EmptySelf
    /\ last = NoCall
    /\ log = <<>>
    /\ calls = <<>>
    /\ pc = "start"
    /\ argv = [f \in Flags |-> Absent]
    /\ locals = NoLocals
    /\ events = <<>>
    /\ trainer = NoTrainer
    /\ raised = NoErr

\* A CustomizableModel is constructed and its methods are called.
Next ==
    \/ Construct
    \/ CallForward
    \/ CallConfigureOptimizers

Spec == Init /\ [][Next]_vars

\* A CustomizableModel with the default hyperparameters is driven through its steps.
NextTraining ==
    \/ ConstructDefaulted
    \/ CallStep

SpecTraining == Init /\ [][NextTraining]_vars

\* The experiment script runs once.
NextExperiment ==
    \/ MainParse
    \/ MainSeed
    \/ MainCallExperiment
    \/ ExpCreate
    \/ ExpTrainer
    \/ ExpFit
    \/ TrainerEpoch
    \/ ExpFitReturn
    \/ ExpTest
    \/ ExpPrint
    \/ ExternalRaises

SpecExperiment == Init /\ [][NextExperiment]_vars

-----------------------------------------------------------------------------
(* Properties of the constructor *)

\* The four argument checks, as conditions on the call.
BadInputDimType == args.input_dim.t # "int"
BadOutputDimType == args.output_dim.t # "int"
BadLr == args.lr.t # "float" \/ args.lr.n <= 0
BadRange == args.input_dim.n < 1 \/ args.output_dim.n < 1
PassesValidation == ~BadInputDimType /\ ~BadOutputDimType /\ ~BadLr /\ ~BadRange

ValidationMessages ==
    {"input_dim must be an integer", "output_dim must be an integer",
     "lr must be a positive float", "input_dim and output_dim must be positive integers"}

\* C1: the constructor raises the first failing check in the order input_dim type
\* (TypeError), output_dim type (TypeError), lr (TypeError), range (ValueError);
\* when a check fails no attribute or layer of the object has been set; and when
\* all pass, none of the four errors is raised.
C1_ValidationOrder ==
    phase # "new" =>
        /\ BadInputDimType =>
              phase = "failed" /\ last.err = Err("TypeError", "input_dim must be an integer")
        /\ ~BadInputDimType /\ BadOutputDimType =>
              phase = "failed" /\ last.err = Err("TypeError", "output_dim must be an integer")
        /\ ~BadInputDimType /\ ~BadOutputDimType /\ BadLr =>
              phase = "failed" /\ last.err = Err("TypeError", "lr must be a positive float")
        /\ ~BadInputDimType /\ ~BadOutputDimType /\ ~BadLr /\ BadRange =>
              /\ phase = "failed"
              /\ last.err = Err("ValueError", "input_dim and output_dim must be positive integers")
        /\ ~PassesValidation => self = EmptySelf
        /\ PassesValidation /\ phase = "failed" => last.err.msg \notin ValidationMessages

\* The claim's example: input_dim = 0 with lr = -1.0 has raised the lr TypeError.
C1_Witness ==
    /\ phase = "failed"
    /\ args.input_dim = PyInt(0)
    /\ args.output_dim = PyInt(2)
    /\ args.lr = PyFloat(-1)
    /\ last.err.type = "TypeError"

\* C2: a model built with hidden_layer_num = n >= 1 and n sizes has exactly n + 1
\* linear layers: input_dim -> sizes[0], then sizes[i] -> sizes[i+1] for i = 0..n-2
\* in that order, then sizes[n-1] -> output_dim.
C2_LayersAsConfigured ==
    LET n == args.hidden_layer_num
        hs == args.hidden_layer_sizes
    IN (phase = "built" /\ n >= 1 /\ Len(hs) = n) =>
          /\ self.input_layer = [in_features |-> args.input_dim.n, out_features |-> hs[1]]
          /\ Len(self.hidden_layers) = n - 1
          /\ \A k \in 1..(n - 1) :
                self.hidden_layers[k] = [in_features |-> hs[k], out_features |-> hs[k + 1]]
          /\ self.output_layer = [in_features |-> hs[n], out_features |-> args.output_dim.n]
          /\ Len(Parameters(self)) = n + 1

\* A three-layer-deep configuration with alternating widths has been built.
C2_Witness ==
    /\ phase = "built"
    /\ args.hidden_layer_num = 3
    /\ args.hidden_layer_sizes = <<1, 2, 1>>
    /\ Len(self.hidden_layers) = 2

ActivationNames == {"ReLU", "Sigmoid", "Tanh", "LeakyRelU"}

\* C5: for a call that passes the argument checks, the four names 'ReLU', 'Sigmoid',
\* 'Tanh' and 'LeakyRelU' install ReLU, Sigmoid, Tanh and LeakyReLU; every other
\* activation raises ValueError and leaves the object without input, hidden or
\* output layer.
C5_ActivationSwitch ==
    (phase # "new" /\ PassesValidation) =>
        /\ args.activation = "ReLU" => self.activation = "nn.ReLU"
        /\ args.activation = "Sigmoid" => self.activation = "nn.Sigmoid"
        /\ args.activation = "Tanh" => self.activation = "nn.Tanh"
        /\ args.activation = "LeakyRelU" => self.activation = "nn.LeakyReLU"
        /\ args.activation \in ActivationNames =>
              /\ "activation" \in self.set
              /\ ~(last.call = "__init__" /\ last.err.type = "ValueError")
        /\ args.activation \notin ActivationNames =>
              /\ phase = "failed"
              /\ last.call = "__init__"
              /\ last.err.type = "ValueError"
              /\ self.set \cap {"activation", "input_layer", "hidden_layers", "output_layer"} = {}
              /\ self.input_layer = NoLayer
              /\ self.hidden_layers = <<>>
              /\ self.output_layer = NoLayer

\* The usual spelling 'LeakyReLU' has been rejected on an otherwise valid call.
C5_Witness ==
    /\ phase = "failed"
    /\ PassesValidation
    /\ args.activation = "LeakyReLU"
    /\ args.hidden_layer_sizes # <<>>
    /\ last.err.type = "ValueError"

\* The layers of the object chain: each in_features is the out_features before it,
\* from input_dim to output_dim.
ChainConsistent ==
    LET ls == Parameters(self) IN
    /\ ls[1].in_features = self.input_dim
    /\ \A k \in 1..(Len(ls) - 1) : ls[k + 1].in_features = ls[k].out_features
    /\ ls[Len(ls)].out_features = self.output_dim

\* C6: every model the constructor returns is dimensionally consistent and
\* configure_optimizers on it returns an optimizer.
C6_ReturnedModelUsable ==
    phase = "built" =>
        /\ ChainConsistent
        /\ configure_optimizers(self).err = NoErr

-----------------------------------------------------------------------------
(* Properties of configure_optimizers and forward *)

OptimizerKind(name) ==
    CASE name = "Adam" -> "torch.optim.Adam"
      [] name = "SGD" -> "torch.optim.SGD"
      [] name = "RMSprop" -> "torch.optim.RMSprop"
      [] OTHER -> ""

\* C3: configure_optimizers returns the optimizer named at construction ('Adam',
\* 'SGD' or 'RMSprop') over the model's parameters with the configured lr and
\* weight_decay = the configured L2_regularization_term; for any other name it
\* returns nothing and raises ValueError; the stored hyperparameters are as configured.
C3_OptimizerSwitch ==
    /\ last.call = "configure_optimizers" =>
          IF args.optimizer \in {"Adam", "SGD", "RMSprop"}
          THEN /\ last.err = NoErr
               /\ last.opt.kind = OptimizerKind(args.optimizer)
               /\ last.opt.lr = args.lr.n
               /\ last.opt.weight_decay = args.L2_regularization_term
               /\ last.opt.params = <<self.input_layer>> \o self.hidden_layers \o <<self.output_layer>>
          ELSE /\ last.err.type = "ValueError"
               /\ last.opt = NoOptimizer
    /\ phase = "built" =>
          /\ self.optimizer = args.optimizer
          /\ self.lr = args.lr.n
          /\ self.L2_regularization_term = args.L2_regularization_term
          /\ self.hidden_layer_num = args.hidden_layer_num
          /\ self.hidden_layer_sizes = args.hidden_layer_sizes
          /\ self.input_dim = args.input_dim.n
          /\ self.output_dim = args.output_dim.n

\* An SGD optimizer with a non-zero weight decay has been returned.
C3_Witness ==
    /\ last.call = "configure_optimizers"
    /\ args.optimizer = "SGD"
    /\ args.L2_regularization_term = 10
    /\ last.opt.kind = "torch.optim.SGD"

\* The modules a forward pass applies for h hidden layers: the j-th entry.
ExpectedOp(j, h) ==
    IF j = 3 * (h + 1) + 1 THEN [op |-> "output_layer", i |-> 0]
    ELSE LET layer == (j - 1) \div 3
             pos == (j - 1) % 3
         IN CASE pos = 0 -> IF layer = 0 THEN [op |-> "input_layer", i |-> 0]
                            ELSE [op |-> "hidden_layers", i |-> layer - 1]
              [] pos = 1 -> [op |-> self.activation, i |-> 0]
              [] pos = 2 -> [op |-> "nn.Dropout", i |-> self.dropout]

\* C7: a forward pass that returns has applied the input layer, then every hidden
\* layer once in construction order, then the output layer; activation then dropout
\* follow the input layer and each hidden layer and nothing follows the output
\* layer; the result's last dimension is output_dim.
C7_ForwardOrder ==
    (last.call = "forward" /\ last.err = NoErr) =>
        LET h == Len(self.hidden_layers) IN
        /\ Len(last.tensor.hist) = 3 * (h + 1) + 1
        /\ \A j \in 1..(3 * (h + 1) + 1) : last.tensor.hist[j] = ExpectedOp(j, h)
        /\ last.tensor.shape = args.output_dim.n
        /\ last.tensor.name = "x"

\* A forward pass through two hidden layers has returned.
C7_Witness ==
    /\ last.call = "forward"
    /\ last.err = NoErr
    /\ Len(self.hidden_layers) = 2
    /\ self.activation = "nn.Tanh"
    /\ self.dropout = 5

-----------------------------------------------------------------------------
(* Properties of the step hooks *)

StepKey(kind) ==
    CASE kind = "training_step" -> "train_loss"
      [] kind = "validation_step" -> "val_loss"
      [] kind = "test_step" -> "test_loss"

\* C4: each step invocation that returns has logged exactly one entry, under its own
\* key ('train_loss', 'val_loss', 'test_loss'), whose value is the mean-squared-error
\* loss between forward(x) and y of its batch and is the value it returned; the log
\* holds these entries in invocation order and nothing else.
C4_StepsLogTheirLoss ==
    /\ Len(log) = Len(calls)
    /\ \A k \in 1..Len(calls) :
          /\ log[k].key = StepKey(calls[k].kind)
          /\ log[k].value = calls[k].ret
          /\ calls[k].ret.fn = "mse_loss"
          /\ calls[k].ret.input = Forward(self, calls[k].batch.x).t
          /\ calls[k].ret.input.shape = self.output_dim
          /\ calls[k].ret.target = calls[k].batch.y
    /\ (last.call \in {"training_step", "validation_step", "test_step"} /\ last.err = NoErr) =>
          /\ Len(log) >= 1
          /\ log[Len(log)] = [key |-> StepKey(last.call), value |-> last.loss]
    /\ (last.call \in {"training_step", "validation_step", "test_step"} /\ last.err # NoErr) =>
          last.loss = NoLoss

\* A validation step and then a training step, on different batches, have been logged.
C4_Witness ==
    /\ Len(log) = 2
    /\ calls[1].kind = "validation_step"
    /\ calls[2].kind = "training_step"
    /\ calls[1].batch # calls[2].batch
    /\ log[1].key = "val_loss"
    /\ log[2].key = "train_loss"

-----------------------------------------------------------------------------
(* Properties of the experiment script *)

\* The external calls of a complete run, in order.
ExperimentOrder ==
    <<"seed_everything", "SyntheticDataLoader", "SimpleModel", "Trainer", "trainer.fit",
      "trainer.fit returned", "trainer.test", "print">>

Positions(c) == {k \in 1..Len(events) : events[k].call = c}

\* C8: the calls of a run are always a prefix of: seed_everything, the data module,
\* the model, the trainer, trainer.fit, its return, trainer.test, print; a run that
\* ends normally has made all of them; trainer.test is invoked at most once, after
\* trainer.fit returned, on the model and data module that were fitted.
C8_PhasesInOrder ==
    /\ Len(events) <= Len(ExperimentOrder)
    /\ \A k \in 1..Len(events) : events[k].call = ExperimentOrder[k]
    /\ pc = "done" => Len(events) = Len(ExperimentOrder)
    /\ Cardinality(Positions("trainer.test")) <= 1
    /\ trainer.tests = Cardinality(Positions("trainer.test"))
    /\ \A k \in Positions("trainer.test") :
          \E j \in 1..(k - 1), r \in 1..(k - 1) :
             /\ j < r
             /\ events[j].call = "trainer.fit"
             /\ events[r].call = "trainer.fit returned"
             /\ events[j].model = events[k].model
             /\ events[j].data = events[k].data
             /\ trainer.epoch = trainer.max_epochs.n
    /\ \A k \in Positions("print") : \E j \in 1..(k - 1) : events[j].call = "trainer.test"

\* A run has ended normally after training for all its epochs.
C8_Witness ==
    /\ pc = "done"
    /\ trainer.tests = 1
    /\ trainer.epoch = 10
    /\ events[Len(events)].call = "print"

\* C9: the periodic callback saves a checkpoint every 5 epochs and keeps all of
\* them (save_top_k = -1); the best-model callback monitors the key validation_step
\* logs under, in 'min' mode, and keeps only the single best checkpoint.
C9_CheckpointPolicies ==
    /\ periodic_checkpoint.save_top_k = -1
    /\ best_model_checkpoint.monitor = StepKey("validation_step")
    /\ best_model_checkpoint.mode = "min"
    /\ best_model_checkpoint.save_top_k = 1
    /\ trainer.created =>
          /\ {c.epoch : c \in trainer.periodic} = {e \in 1..trainer.epoch : e % 5 = 0}
          /\ Cardinality(trainer.best) <= 1

\* The number a flag's text denotes.
TextNumber(txt) ==
    CASE txt = "0" -> 0
      [] txt = "3" -> 3
      [] OTHER -> 0

FlagDefault(f) ==
    CASE f = "batch_size" -> PyInt(32)
      [] f = "lr" -> PyFloat(1)
      [] f = "max_epochs" -> PyInt(10)
      [] f = "random_seed" -> PyInt(42)
      [] f = "gpus" -> PyInt(0)

\* C10: main uses the default for every flag that is absent and the supplied value
\* for every flag that is present, and selects 'gpu' exactly when gpus is greater
\* than 0 and 'cpu' otherwise, on every invocation, --gpus absent or supplied.
C10_DefaultsAndAccelerator ==
    /\ pc # "start" =>
          \A f \in Flags :
             locals[f] = IF argv[f].present THEN PyStr(argv[f].text) ELSE FlagDefault(f)
    /\ raised.type # "TypeError"
    /\ pc \in {"data_module", "model", "trainer", "fit", "fitting", "test", "print", "done"} =>
          LET g == IF argv["gpus"].present THEN TextNumber(argv["gpus"].text) ELSE 0
          IN locals.accelerator = IF g > 0 THEN "gpu" ELSE "cpu"

=============================================================================
